---- MODULE Spec2Model ----
(***************************************************************************)
(* Model of the blackrock2 crate: the Blackrock2 format-preserving shuffle *)
(* (src/src/generator.rs) and the iterators that drive it (src/src/lib.rs).*)
(*                                                                         *)
(* Machine words.  The crate computes on u64.  TLC's integers are 32 bits  *)
(* wide, so the model computes on words of WordBits bits: every u64        *)
(* operation is modelled on 0 .. 2^WordBits - 1 with the same wrap-around, *)
(* and the address adapter's u32 on words of AddrBits bits.  Rotation      *)
(* amounts are taken modulo the word width (for 64 they are the crate's).  *)
(*                                                                         *)
(* Build profile.  Rust's `+` on integers panics on overflow when the      *)
(* crate is built with overflow checks (Cargo's dev and test profiles) and *)
(* wraps when it is built without (the release profile); debug_assert! is  *)
(* compiled in under the same profiles.  Both outcomes are builds of this  *)
(* source, so the profile is an input drawn in Init.                       *)
(***************************************************************************)
EXTENDS Integers, Sequences, FiniteSets, TLC

\* ------------------------------------------------------------------ bounds
WordBits == 6
AddrBits == 2
MaxRange == 20
MaxSeed == 3
MaxRounds == 6
MaxIterRange == 4
MaxIterRounds == 2
MaxSkip == 1

\* ------------------------------------------------------- program constants
\* the rounds of BlackRockGenerator::new, which BlackRockIter::new builds on
DefaultRounds == 3
\* the low 16 bits (0xd940) of v3's initial value 0xf3016d19bc9ad940
V3Low16 == 55616

VARIABLES
    profile,      \* "dev" (overflow checks, debug assertions) or "release"
    pc,           \* position of the driver of the specification at hand
    fault,        \* "none", or the panic that ended the run
    n, x0, x1, ret,                   \* int_sqrt's argument, locals, result
    gen,          \* the BlackRockGenerator built by with_seed_and_rounds
    i, list, evals,                   \* tests::verify: index, hit counts
    m, image,     \* sweep of encrypt over the covering domain
    range,        \* BlackRockIter.range: the Range<u64> cursor
    last,         \* what the latest iterator call returned
    returned,     \* the indices whose value a call has returned
    skipped,      \* the indices nth and nth_back have passed over
    yielded,      \* the values returned
    noneSeen,     \* some call has returned None
    calls,        \* the number of times the iterator has run shuffle
    adapter       \* TRUE when the iterator is wrapped in BlackRockIpGenerator

vars == <<profile, pc, fault, n, x0, x1, ret, gen, i, list, evals, m, image,
          range, last, returned, skipped, yielded, noneSeen, calls, adapter>>

sqrtVars == <<n, x0, x1, ret>>
genVars == <<gen>>
verifyVars == <<i, list, evals>>
sweepVars == <<m, image>>
iterVars == <<range, last, returned, skipped, yielded, noneSeen, calls, adapter>>

\* ----------------------------------------------------------- machine words
Modulus == 2 ^ WordBits
Word == 0 .. Modulus - 1
U64Max == Modulus - 1

overflow_checks == profile = "dev"
debug_assertions == profile = "dev"

wrapping_add(x, y) == (x + y) % Modulus

\* x + y as the build computes it: the wrapped sum, and whether it overflowed
add(x, y) == [val |-> (x + y) % Modulus, ovf |-> x + y >= Modulus]

rotate_left(x, r) ==
    LET k == r % WordBits
    IN  ((x * (2 ^ k)) % Modulus) + (x \div (2 ^ (WordBits - k)))

RECURSIVE xor(_, _)
xor(x, y) ==
    IF x = 0 THEN y
    ELSE IF y = 0 THEN x
    ELSE (((x % 2) + (y % 2)) % 2) + 2 * xor(x \div 2, y \div 2)

RECURSIVE bitand(_, _)
bitand(x, y) ==
    IF x = 0 \/ y = 0 THEN 0
    ELSE ((x % 2) * (y % 2)) + 2 * bitand(x \div 2, y \div 2)

shl(x, k) == (x * (2 ^ k)) % Modulus
shr(x, k) == x \div (2 ^ k)

\* u64::next_power_of_two: the smallest power of two >= x (1 for x = 0)
RECURSIVE pow2_at_least(_, _)
pow2_at_least(p, x) == IF p >= x THEN p ELSE pow2_at_least(2 * p, x)
next_power_of_two(x) == pow2_at_least(1, x)

\* u64::checked_ilog2 for x >= 1: floor(log2 x)
RECURSIVE ilog2(_)
ilog2(x) == IF x <= 1 THEN 0 ELSE 1 + ilog2(x \div 2)

\* ---------------------------------------------------------------- int_sqrt
\* One Newton update, x1 = (x0 + n / x0) / 2, for x0 > 0.
newton(nn, x) == (x + nn \div x) \div 2

RECURSIVE sqrt_loop(_, _, _)
sqrt_loop(nn, a0, a1) ==
    IF a1 < a0 THEN sqrt_loop(nn, a1, newton(nn, a1)) ELSE a0

int_sqrt(nn) ==
    IF nn <= 1 THEN nn ELSE sqrt_loop(nn, nn \div 2, newton(nn, nn \div 2))

\* int_sqrt run one step at a time: entry, loop iteration, loop exit.
SqrtInit ==
    /\ profile \in {"dev", "release"}
    /\ pc = "call"
    /\ fault = "none"
    /\ n \in Word
    /\ x0 = 0 /\ x1 = 0 /\ ret = 0
    /\ gen = [range |-> 0, seed |-> 0, rounds |-> 0,
              a_bits |-> 0, a_mask |-> 0, b_mask |-> 0]
    /\ i = 0 /\ list = <<>> /\ evals = 0
    /\ m = 0 /\ image = {}
    /\ range = [start |-> 0, end |-> 0]
    /\ last = [some |-> FALSE, idx |-> 0, val |-> 0]
    /\ returned = {} /\ skipped = {} /\ yielded = {}
    /\ noneSeen = FALSE /\ calls = 0 /\ adapter = FALSE

\* the Newton update from guess x as the build runs it: division by zero
\* panics in every build, an overflowing sum panics under overflow checks
SqrtUpdate(x) ==
    IF x = 0
    THEN /\ fault' = "int_sqrt: attempt to divide by zero"
         /\ pc' = "panicked"
         /\ UNCHANGED <<x0, x1, ret>>
    ELSE IF overflow_checks /\ add(x, n \div x).ovf
    THEN /\ fault' = "int_sqrt: attempt to add with overflow"
         /\ pc' = "panicked"
         /\ UNCHANGED <<x0, x1, ret>>
    ELSE /\ x0' = x
         /\ x1' = add(x, n \div x).val \div 2
         /\ pc' = "loop"
         /\ UNCHANGED <<fault, ret>>

SqrtEntry ==
    /\ pc = "call"
    /\ IF n <= 1
       THEN /\ ret' = n
            /\ pc' = "done"
            /\ UNCHANGED <<x0, x1, fault>>
       ELSE SqrtUpdate(n \div 2)
    /\ UNCHANGED <<profile, n, genVars, verifyVars, sweepVars, iterVars>>

SqrtIterate ==
    /\ pc = "loop"
    /\ x1 < x0
    /\ SqrtUpdate(x1)
    /\ UNCHANGED <<profile, n, genVars, verifyVars, sweepVars, iterVars>>

\* int_sqrt returning the newer estimate x1 where the code returns x0
SqrtReturnsX1 ==
    /\ pc = "loop"
    /\ ~(x1 < x0)
    /\ ret' = x1
    /\ pc' = "done"
    /\ UNCHANGED <<profile, fault, n, x0, x1, genVars, verifyVars, sweepVars,
                   iterVars>>

SqrtReturn ==
    /\ pc = "loop"
    /\ ~(x1 < x0)
    /\ ret' = x0
    /\ pc' = "done"
    /\ UNCHANGED <<profile, fault, n, x0, x1, genVars, verifyVars, sweepVars,
                   iterVars>>

SqrtNext == SqrtEntry \/ SqrtIterate \/ SqrtReturn

\* The loop is straight-line code: once called it keeps running.
SpecSqrt == SqrtInit /\ [][SqrtNext]_vars /\ WF_vars(SqrtNext)

\* --------------------------------------------------- BlackRockGenerator
\* bit_count as the number of bits of x, where the code takes floor(log2 x)
bit_length(x) == IF x = 0 THEN 0 ELSE ilog2(x) + 1

bit_count(x) == IF x = 0 THEN 0 ELSE ilog2(x)

\* with_seed_and_rounds with b rounded up from range / a, its `+ 1` dropped
derive_b_without_increment(rg, seed, rounds) ==
    LET a == next_power_of_two(int_sqrt(rg) + 1)
        b == next_power_of_two(rg \div a)
    IN  [range |-> rg, seed |-> seed, rounds |-> rounds,
         a_bits |-> bit_count(a), a_mask |-> a - 1, b_mask |-> b - 1]

\* with_seed_and_rounds with a rounded up from int_sqrt(range) + 2
derive_a_from_sqrt_plus_two(rg, seed, rounds) ==
    LET a == next_power_of_two(int_sqrt(rg) + 2)
        b == next_power_of_two((rg \div a) + 1)
    IN  [range |-> rg, seed |-> seed, rounds |-> rounds,
         a_bits |-> bit_count(a), a_mask |-> a - 1, b_mask |-> b - 1]

with_seed_and_rounds(rg, seed, rounds) ==
    LET a == next_power_of_two(int_sqrt(rg) + 1)
        b == next_power_of_two((rg \div a) + 1)
    IN  [range |-> rg, seed |-> seed, rounds |-> rounds,
         a_bits |-> bit_count(a), a_mask |-> a - 1, b_mask |-> b - 1]

\* whether one of the sums of with_seed_and_rounds leaves the word: the two
\* `+ 1`, and the two roundings up to a power of two
derive_overflows(rg) ==
    LET s == int_sqrt(rg)
        a == next_power_of_two(s + 1)
    IN  \/ add(s, 1).ovf
        \/ a > U64Max
        \/ add(rg \div a, 1).ovf
        \/ next_power_of_two((rg \div a) + 1) > U64Max

\* sipround in its four groups of simultaneous assignments
Quad == Word \X Word \X Word \X Word
sip_a[v \in Quad] ==
    <<wrapping_add(v[1], v[2]), v[2], wrapping_add(v[3], v[4]), v[4]>>
sip_b[v \in Quad] ==
    <<rotate_left(v[1], 32), xor(rotate_left(v[2], 13), v[1]), v[3],
      xor(rotate_left(v[4], 16), v[3])>>
sip_c[v \in Quad] ==
    <<wrapping_add(v[1], v[4]), v[2], wrapping_add(v[3], v[2]), v[4]>>
sip_d[v \in Quad] ==
    <<v[1], xor(rotate_left(v[2], 17), v[3]), rotate_left(v[3], 32),
      xor(rotate_left(v[4], 21), v[1])>>
sipround(v) == sip_d[sip_c[sip_b[sip_a[v]]]]

RECURSIVE sip_times(_, _)
sip_times(v, k) == IF k = 0 THEN v ELSE sip_times(sipround(v), k - 1)

round(g, j, right) ==
    LET v == <<j % Modulus, right, g.seed, V3Low16 % Modulus>>
    IN  sip_times(v, 4)[1]

\* The one element of a singleton.  Only({ e(x) : x \in {d} }) is `let x = d
\* in e(x)` with d computed once, as the code computes it.
Only(S) == CHOOSE r \in S : TRUE

\* The Feistel rounds j .. rounds of encrypt.  ovf names the first sum that
\* left the word ("none" when every sum fitted).
RECURSIVE feistel(_, _, _, _, _)
feistel(g, left, right, j, ovf) ==
    IF j <= g.rounds
    THEN Only({ feistel(g, right,
                        IF bitand(j, 1) = 1
                        THEN bitand(s.val, g.a_mask)
                        ELSE bitand(s.val, g.b_mask),
                        j + 1,
                        IF ovf = "none" /\ s.ovf THEN "round" ELSE ovf)
                : s \in {add(left, round(g, j, right))} })
    ELSE [left |-> left, right |-> right, j |-> j, ovf |-> ovf]

encrypt(g, mm) ==
    Only({ Only({ [val |-> s.val,
                   ovf |-> IF f.ovf = "none" /\ s.ovf THEN "reassembly" ELSE f.ovf]
                  : s \in {IF f.j % 2 = 0
                           THEN add(shl(f.left, g.a_bits), f.right)
                           ELSE add(shl(f.right, g.a_bits), f.left)} })
           : f \in {feistel(g, bitand(mm, g.a_mask), shr(mm, g.a_bits), 1, "none")} })

\* The cycle walk of shuffle from c = encrypt(m), after cnt evaluations of
\* encrypt.  status is "ok" (val returned), "panic" (a sum overflowed in a
\* build with overflow checks) or "stuck": c came back to a value the walk
\* has already left, so `while c >= self.range` never exits.
RECURSIVE walk(_, _, _, _)
walk(g, c, cnt, seen) ==
    IF overflow_checks /\ c.ovf # "none"
    THEN [status |-> "panic", val |-> 0, evals |-> cnt, ovf |-> c.ovf]
    ELSE IF c.val < g.range
    THEN [status |-> "ok", val |-> c.val, evals |-> cnt, ovf |-> "none"]
    ELSE IF c.val \in seen
    THEN [status |-> "stuck", val |-> c.val, evals |-> cnt, ovf |-> "none"]
    ELSE Only({ walk(g, d, cnt + 1, seen \cup {c.val}) : d \in {encrypt(g, c.val)} })

\* shuffle without its cycle walk: the first encrypt is returned as it is
shuffle_without_walk(g, mm) ==
    Only({ [status |-> IF overflow_checks /\ c.ovf # "none" THEN "panic" ELSE "ok",
            val |-> c.val, evals |-> 1, ovf |-> c.ovf]
           : c \in {encrypt(g, mm)} })

shuffle(g, mm) == Only({ walk(g, c, 1, {}) : c \in {encrypt(g, mm)} })

\* the panic of a build with overflow checks, by the caller that met it and
\* the sum of encrypt that overflowed ("round" or "reassembly")
shuffle_panic(ovf) ==
    IF ovf = "round" THEN "shuffle: attempt to add with overflow (round sum)"
    ELSE "shuffle: attempt to add with overflow (reassembly)"
encrypt_panic(ovf) ==
    IF ovf = "round" THEN "encrypt: attempt to add with overflow (round sum)"
    ELSE "encrypt: attempt to add with overflow (reassembly)"

\* the covering domain [0, a*b)
a_of(g) == g.a_mask + 1
b_of(g) == g.b_mask + 1
covering(g) == a_of(g) * b_of(g)

\* ------------------------------------------------ driving the generator
NoGen == [range |-> 0, seed |-> 0, rounds |-> 0,
          a_bits |-> 0, a_mask |-> 0, b_mask |-> 0]
NoRange == [start |-> 0, end |-> 0]
NoItem == [some |-> FALSE, idx |-> 0, val |-> 0]

Init ==
    /\ profile \in {"dev", "release"}
    /\ pc = "new"
    /\ fault = "none"
    /\ n = 0 /\ x0 = 0 /\ x1 = 0 /\ ret = 0
    /\ gen = NoGen
    /\ i = 0 /\ list = <<>> /\ evals = 0
    /\ m = 0 /\ image = {}
    /\ range = NoRange
    /\ last = NoItem
    /\ returned = {} /\ skipped = {} /\ yielded = {}
    /\ noneSeen = FALSE /\ calls = 0 /\ adapter = FALSE

\* BlackRockGenerator::with_seed_and_rounds(rg, seed, rounds), and the
\* `vec![0; range]` of tests::verify
Construct(rg, seed, rounds) ==
    /\ pc = "new"
    /\ IF overflow_checks /\ derive_overflows(rg)
       THEN /\ fault' = "with_seed_and_rounds: attempt to add with overflow"
            /\ pc' = "panicked"
            /\ UNCHANGED <<gen, list>>
       ELSE /\ gen' = with_seed_and_rounds(rg, seed, rounds)
            /\ list' = [x \in 1 .. rg |-> 0]
            /\ pc' = "ready"
            /\ UNCHANGED fault
    /\ UNCHANGED <<profile, sqrtVars, i, evals, sweepVars, iterVars>>

\* one turn of `for i in 0..range` of tests::verify: list[shuffle(i)] += 1
\* (list is indexed from 1 here: slot x is list[x + 1])
VerifyStep ==
    /\ pc \in {"ready", "verify"}
    /\ i < gen.range
    /\ \E r \in {shuffle(gen, i)} :
           /\ evals' = r.evals
           /\ IF r.status = "panic"
              THEN /\ fault' = shuffle_panic(r.ovf)
                   /\ pc' = "panicked"
                   /\ UNCHANGED <<i, list>>
              ELSE IF r.status = "stuck"
              THEN /\ pc' = "stuck"
                   /\ UNCHANGED <<i, list, fault>>
              ELSE IF r.val >= Len(list)
              THEN /\ fault' = "index out of bounds"
                   /\ pc' = "panicked"
                   /\ UNCHANGED <<i, list>>
              ELSE /\ list' = [list EXCEPT ![r.val + 1] = @ + 1]
                   /\ i' = i + 1
                   /\ pc' = "verify"
                   /\ UNCHANGED fault
    /\ UNCHANGED <<profile, sqrtVars, genVars, sweepVars, iterVars>>

\* the closing loop of tests::verify: assert_eq!(number, 1) for every slot
VerifyCheck ==
    /\ pc \in {"ready", "verify"}
    /\ i = gen.range
    /\ IF \A x \in 1 .. Len(list) : list[x] = 1
       THEN pc' = "verified" /\ UNCHANGED fault
       ELSE pc' = "panicked" /\ fault' = "assert_eq failed"
    /\ UNCHANGED <<profile, sqrtVars, genVars, verifyVars, sweepVars, iterVars>>

\* encrypt applied to the next value of the covering domain [0, a*b)
SweepStep ==
    /\ pc \in {"ready", "sweep"}
    /\ m < covering(gen)
    /\ \E e \in {encrypt(gen, m)} :
           IF overflow_checks /\ e.ovf # "none"
           THEN /\ fault' = encrypt_panic(e.ovf)
                /\ pc' = "panicked"
                /\ UNCHANGED <<m, image>>
           ELSE /\ image' = image \cup {e.val}
                /\ m' = m + 1
                /\ pc' = "sweep"
                /\ UNCHANGED fault
    /\ UNCHANGED <<profile, sqrtVars, genVars, verifyVars, iterVars>>

Next ==
    \/ \E rg \in 0 .. MaxRange, seed \in 0 .. MaxSeed, rounds \in 0 .. MaxRounds :
           Construct(rg, seed, rounds)
    \/ VerifyStep
    \/ VerifyCheck
    \/ SweepStep

Spec == Init /\ [][Next]_vars

\* ------------------------------------------ BlackRockIter, BlackRockIpGenerator
\* core::ops::Range<u64> as an iterator: what each call hands back (some, idx)
\* and the range it leaves.  A skip count is a usize; start + k and end - k
\* are checked_add and checked_sub.
Item(r, x) == [some |-> TRUE, idx |-> x, range |-> r]
None(r) == [some |-> FALSE, idx |-> 0, range |-> r]

range_next(r) ==
    IF r.start < r.end
    THEN Item([r EXCEPT !.start = r.start + 1], r.start)
    ELSE None(r)

range_nth(r, k) ==
    IF r.start + k <= U64Max /\ r.start + k < r.end
    THEN Item([r EXCEPT !.start = r.start + k + 1], r.start + k)
    ELSE None([r EXCEPT !.start = r.end])

range_next_back(r) ==
    IF r.start < r.end
    THEN Item([r EXCEPT !.end = r.end - 1], r.end - 1)
    ELSE None(r)

range_nth_back(r, k) ==
    IF r.end - k >= 0 /\ r.end - k > r.start
    THEN Item([r EXCEPT !.end = r.end - k - 1], r.end - k - 1)
    ELSE None([r EXCEPT !.end = r.start])

\* the address adapter: u32::MAX and `1 << 32` at the model's address width
U32Max == (2 ^ AddrBits) - 1
AddrRange == 2 ^ AddrBits
to_ip_assertion(x) == x < U32Max
to_ip(x) == x % (2 ^ AddrBits)

Indices(r) == r.start .. r.end - 1
Skips == 0 .. MaxSkip \cup {U64Max}

\* BlackRockIter::with_seed_and_rounds(rg, seed, rounds)
IterNew(rg, seed, rounds) ==
    /\ pc = "new"
    /\ IF overflow_checks /\ derive_overflows(rg)
       THEN /\ fault' = "with_seed_and_rounds: attempt to add with overflow"
            /\ pc' = "panicked"
            /\ UNCHANGED <<gen, range>>
       ELSE /\ gen' = with_seed_and_rounds(rg, seed, rounds)
            /\ range' = [start |-> 0, end |-> rg]
            /\ pc' = "iter"
            /\ UNCHANGED fault
    /\ UNCHANGED <<profile, sqrtVars, verifyVars, sweepVars, last, returned,
                   skipped, yielded, noneSeen, calls, adapter>>

\* BlackRockIpGenerator::new(): BlackRockIter::new(1 << 32), whose seed is
\* rand::random() and whose rounds are the default
IpNew(seed) ==
    /\ pc = "new"
    /\ gen' = with_seed_and_rounds(AddrRange, seed, DefaultRounds)
    /\ range' = [start |-> 0, end |-> AddrRange]
    /\ adapter' = TRUE
    /\ pc' = "iter"
    /\ UNCHANGED <<profile, fault, sqrtVars, verifyVars, sweepVars, last,
                   returned, skipped, yielded, noneSeen, calls>>

\* `self.range.<call>().map(|x| self.generator.shuffle(x))`, and `.map(to_ip)`
\* on top of it in the adapter: res is what the range's call handed back.
Deliver(res) ==
    /\ pc = "iter"
    /\ range' = res.range
    /\ skipped' = skipped \cup
                  ((Indices(range) \ Indices(res.range)) \
                   (IF res.some THEN {res.idx} ELSE {}))
    /\ IF ~res.some
       THEN /\ last' = NoItem
            /\ noneSeen' = TRUE
            /\ UNCHANGED <<pc, fault, returned, yielded, calls>>
       ELSE /\ calls' = calls + 1
            /\ UNCHANGED noneSeen
            /\ \E r \in {shuffle(gen, res.idx)} :
                   IF r.status = "panic"
                   THEN /\ fault' = shuffle_panic(r.ovf)
                        /\ pc' = "panicked"
                        /\ last' = NoItem
                        /\ UNCHANGED <<returned, yielded>>
                   ELSE IF r.status = "stuck"
                   THEN /\ pc' = "stuck"
                        /\ last' = NoItem
                        /\ UNCHANGED <<fault, returned, yielded>>
                   ELSE IF adapter /\ debug_assertions /\ ~to_ip_assertion(r.val)
                   THEN /\ fault' = "to_ip: assertion failed"
                        /\ pc' = "panicked"
                        /\ last' = NoItem
                        /\ UNCHANGED <<returned, yielded>>
                   ELSE /\ last' = [some |-> TRUE, idx |-> res.idx,
                                    val |-> IF adapter THEN to_ip(r.val)
                                            ELSE r.val]
                        /\ returned' = returned \cup {res.idx}
                        /\ yielded' = yielded \cup {r.val}
                        /\ UNCHANGED <<pc, fault>>
    /\ UNCHANGED <<profile, sqrtVars, genVars, verifyVars, sweepVars, adapter>>

next == Deliver(range_next(range))
nth(k) == Deliver(range_nth(range, k))
next_back == Deliver(range_next_back(range))
nth_back(k) == Deliver(range_nth_back(range, k))

IterNext ==
    \/ \E rg \in 0 .. MaxIterRange, seed \in 0 .. MaxSeed,
          rounds \in 0 .. MaxIterRounds : IterNew(rg, seed, rounds)
    \/ \E seed \in 0 .. MaxSeed : IpNew(seed)
    \/ next
    \/ \E k \in Skips : nth(k)
    \/ next_back
    \/ \E k \in Skips : nth_back(k)

SpecIter == Init /\ [][IterNext]_vars

\* ------------------------------------------------------------ properties
IsPow2(x) == \E k \in 0 .. WordBits : x = 2 ^ k
Slots == 1 .. Len(list)
RoundSumFaults == {shuffle_panic("round"), encrypt_panic("round")}
OverflowFaults ==
    {"int_sqrt: attempt to add with overflow",
     "with_seed_and_rounds: attempt to add with overflow",
     shuffle_panic("reassembly"), encrypt_panic("reassembly")} \cup RoundSumFaults

\* C1: for every range N >= 1, seed and rounds, shuffle on 0 <= i < N is a
\* bijection onto [0, N): every call returns a value < N, no slot is hit
\* twice, and once every i has been shuffled every slot has been hit exactly
\* once (tests::verify runs through and its assert_eq! holds).
ShuffleIsBijection ==
    (pc # "new" /\ gen.range >= 1) =>
        /\ pc # "stuck"
        /\ fault \notin {shuffle_panic("round"), shuffle_panic("reassembly"),
                         "index out of bounds", "assert_eq failed"}
        /\ \A x \in Slots : list[x] <= 1
        /\ i = gen.range => \A x \in Slots : list[x] = 1

\* C1, as far as it holds: in a build whose sums wrap, shuffle is that bijection.
ShuffleIsBijectionWrapping == profile = "release" => ShuffleIsBijection

\* C2: for every range N >= 1, seed, rounds and 0 <= i < N, the cycle walk of
\* shuffle(i) does not run forever and returns after at most a*b - N + 1
\* evaluations of encrypt.
ShuffleReturnsInBound ==
    (pc # "new" /\ gen.range >= 1) =>
        /\ pc # "stuck"
        /\ fault \notin {shuffle_panic("round"), shuffle_panic("reassembly")}
        /\ evals <= covering(gen) - gen.range + 1

\* C2, as far as it holds: no walk runs forever, and every walk, returning or
\* ended by the overflow panic, makes at most a*b - N + 1 evaluations.
ShuffleWalkBounded ==
    pc # "new" => pc # "stuck" /\ evals <= covering(gen) - gen.range + 1

\* C5: for every range, seed, rounds and round-function output, encrypt maps
\* [0, a*b) into [0, a*b) and no two inputs of it to the same output.
EncryptIsBijection ==
    pc # "new" =>
        /\ fault \notin {encrypt_panic("round"), encrypt_panic("reassembly")}
        /\ image \subseteq 0 .. covering(gen) - 1
        /\ Cardinality(image) = m

\* C5, as far as it holds: in a build whose sums wrap, encrypt is that bijection.
EncryptIsBijectionWrapping == profile = "release" => EncryptIsBijection

\* C6: for every range N the derived a = a_mask + 1 and b = b_mask + 1 are
\* powers of two, a_bits = log2(a), and a*b >= N.
DerivedParameters ==
    pc \notin {"new", "panicked"} =>
        /\ IsPow2(a_of(gen))
        /\ IsPow2(b_of(gen))
        /\ 2 ^ gen.a_bits = a_of(gen)
        /\ covering(gen) >= gen.range

DerivedParametersWitness ==
    pc = "ready" /\ gen.range = 10 /\ gen.a_mask = 3 /\ gen.b_mask = 3

\* C7 (as stated): construction with range = 0 and with range = 1 both yield
\* a_bits = 0.
DegenerateCollapses ==
    (pc \notin {"new", "panicked"} /\ gen.range \in {0, 1}) => gen.a_bits = 0

\* C7 (amended): range = 0 yields a_bits = 0 with a = b = 1, the covering
\* domain {0}; range = 1 yields a_bits = 1 with a = 2 and b = 1, the covering
\* domain {0, 1}.
DegenerateParameters ==
    pc \notin {"new", "panicked"} =>
        /\ gen.range = 0 =>
               gen.a_bits = 0 /\ gen.a_mask = 0 /\ gen.b_mask = 0
        /\ gen.range = 1 =>
               gen.a_bits = 1 /\ gen.a_mask = 1 /\ gen.b_mask = 0

DegenerateParametersWitness ==
    pc = "ready" /\ gen.range = 1 /\ gen.a_bits = 1

\* C8: no sum of the core faults: the round sum left + round(j, right) of
\* encrypt, its reassembly, int_sqrt and the parameter derivation all run
\* without an overflow panic, for every mixer output.
NoArithmeticFault == fault \notin OverflowFaults

\* C8, as far as it holds: the only sum that can fault is the round sum of
\* encrypt (a fault is raised only in a build with overflow checks).
OnlyRoundSumFaults ==
    fault \in OverflowFaults => profile = "dev" /\ fault \in RoundSumFaults

\* C10: for every range N >= 1, N < a*b <= 2*N.
CoveringWithinTwice ==
    (pc \notin {"new", "panicked"} /\ gen.range >= 1) =>
        /\ gen.range < covering(gen)
        /\ covering(gen) <= 2 * gen.range

CoveringWithinTwiceWitness ==
    pc = "ready" /\ gen.range = 16 /\ covering(gen) = 32

\* the calls that returned a value: every call that found an index ran
\* shuffle once, and only the call that ended the run returned nothing
Returns == IF pc \in {"panicked", "stuck"} THEN calls - 1 ELSE calls

\* C3: after any interleaving of next, next_back, nth and nth_back on an
\* enumerator over range N, every value returned is shuffle(i) of an index
\* i in [0, N) that no earlier call returned or skipped, so the values are
\* pairwise distinct and < N and at most N are returned; after a None every
\* call returns None; for N = 0 no value is returned and shuffle never runs.
EnumeratorYieldsFreshIndices ==
    pc # "new" =>
        /\ returned \subseteq 0 .. gen.range - 1
        /\ returned \cap skipped = {}
        /\ returned \cap Indices(range) = {}
        /\ Cardinality(returned) = Returns
        /\ \E image_of \in {[x \in returned |-> shuffle(gen, x)]} :
               /\ \A x \in returned : image_of[x].status = "ok"
               /\ yielded = {image_of[x].val : x \in returned}
               /\ last.some => /\ last.idx \in returned
                               /\ last.val = image_of[last.idx].val
        /\ yielded \subseteq 0 .. gen.range - 1
        /\ Cardinality(yielded) = Returns
        /\ Returns <= gen.range
        /\ noneSeen => ~last.some
        /\ gen.range = 0 => calls = 0 /\ yielded = {}

\* every kind of call has acted: values from the front and from the back, a
\* skipped index, and a None after them
EnumeratorWitness ==
    /\ pc = "iter" /\ ~adapter
    /\ noneSeen
    /\ Returns >= 3
    /\ 0 \in returned /\ gen.range - 1 \in returned
    /\ skipped # {}

\* C4: the assertion of to_ip holds for every value the enumerator over
\* range 2^32 yields, the largest, 2^32 - 1, included.
AdapterAssertionHolds == fault # "to_ip: assertion failed"

\* C9: int_sqrt(n) returns floor(sqrt(n)) for every n (r*r <= n < (r+1)*(r+1)),
\* n = 0 .. 3 included; the Newton loop ends and never divides by zero (nor
\* does its sum overflow).  The stepwise run and the operator agree.
IntSqrtIsFloorSqrt ==
    /\ [](pc = "done" =>
              /\ ret * ret <= n
              /\ n < (ret + 1) * (ret + 1)
              /\ ret = int_sqrt(n))
    /\ [](fault = "none")
    /\ <>(pc = "done")

\* n = 3: the first guess n / 2 is 1 and the first update moves away from it
IntSqrtWitness == pc = "done" /\ n = 3 /\ ret = 1 /\ x0 = 1 /\ x1 = 2

====
